---- MODULE Spec2Model ----
(***************************************************************************)
(* Pixel Art Maker (src/pixel-art/src/App.tsx): the React component App,   *)
(* its six useState cells and its event handlers, as a state machine.      *)
(*                                                                         *)
(* A React handler is a closure of the render that created it: it reads    *)
(* gridSize, selectedColor, pixels and isDrawing as they were when the     *)
(* component last rendered (the variable `rendered`), and writes through   *)
(* the setters into the hook state (the variables named as in the source). *)
(* setX(value) replaces the hook state, setX(prev => ...) is applied to    *)
(* the hook state itself.  React renders again at the end of a discrete    *)
(* event (click, mousedown, mouseup, touchstart, touchend, change), so     *)
(* those handlers end with Flush; the updates of a continuous event        *)
(* (mouseenter, mouseleave, touchmove) and of the native resize listener   *)
(* or the mount effect are rendered by a later task, the action Render.    *)
(***************************************************************************)
EXTENDS Integers, Sequences, FiniteSets, TLC

VARIABLES
  gridSize,       \* useState<GridSize>, line 9
  selectedColor,  \* useState<string>, line 10
  pixels,         \* useState<Map<string,string>>, line 11: entries in insertion order
  isDrawing,      \* useState<boolean>, line 12
  isMobile,       \* useState<boolean>, line 13
  recentColors,   \* useState<string[]>, line 14
  rendered,       \* the values the handlers of the last render closed over
  mounted,        \* whether the mount effect of line 17 has run
  innerWidth,     \* window.innerWidth
  ev,             \* the last input event (history variable)
  download,       \* what the last event handed to link.click(), if anything
  cap             \* <<>>: any number of events; <<n>>: n more events

vars == <<gridSize, selectedColor, pixels, isDrawing, isMobile, recentColors,
          rendered, mounted, innerWidth, ev, download, cap>>

----------------------------------------------------------------------------
(* Program constants *)

MaxRecent == 10
Breakpoint == 768
SmallSide == 16
LargeSide == 32
CellSize == 10
Seed == "#3b82f6"

(* Bounds of the model *)

NumColors == 2
NumCells == 3
MaxEvents == 3

Palette == <<Seed, "#ff0000", "#00ff00", "#000000", "#ffffff", "#0000ff">>
Colors == {Palette[i] : i \in 1..NumColors}

\* Colours that fill a history up to its capacity (with the seed as oldest).
Fillers == <<"#111111", "#222222", "#333333", "#444444", "#555555",
             "#666666", "#777777", "#888888", "#999999">>

CellList == <<<<0, 0>>, <<20, 7>>, <<1, 2>>, <<15, 3>>, <<16, 0>>>>
Cells == {CellList[i] : i \in 1..NumCells}
NoCell == <<>>

Widths == {Breakpoint - 1, Breakpoint, 360}

----------------------------------------------------------------------------
(* Helpers *)

Range(s) == {s[i] : i \in 1..Len(s)}

Min(a, b) == IF a < b THEN a ELSE b

Distinct(s) == \A i, j \in 1..Len(s) : i # j => s[i] # s[j]

\* Array.prototype.filter(c => c !== color)
RECURSIVE FilterOut(_, _)
FilterOut(s, color) ==
  IF s = <<>> THEN <<>>
  ELSE IF Head(s) = color THEN FilterOut(Tail(s), color)
       ELSE <<Head(s)>> \o FilterOut(Tail(s), color)

\* slice(-n) in place of slice(0, n): keeps the last n entries
Slice0KeepsLast(s, n) == SubSeq(s, Len(s) - Min(n, Len(s)) + 1, Len(s))

\* Array.prototype.slice(0, n)
Slice0(s, n) == SubSeq(s, 1, Min(n, Len(s)))

\* The decimal digits of a non-negative integer, as in a template literal.
RECURSIVE Digits(_)
Digits(n) ==
  LET d == <<"0", "1", "2", "3", "4", "5", "6", "7", "8", "9">>
  IN IF n < 10 THEN <<d[n + 1]>> ELSE Digits(n \div 10) \o <<d[(n % 10) + 1]>>

\* `${x}-${y}`: the key is the string of characters
getPixelKey(x, y) == Digits(x) \o <<"-">> \o Digits(y)

KeyOf(cell) == getPixelKey(cell[1], cell[2])

\* String.prototype.split('-'): the pieces between the dashes
RECURSIVE SplitDash(_, _)
SplitDash(s, piece) ==
  IF s = <<>> THEN <<piece>>
  ELSE IF Head(s) = "-" THEN <<piece>> \o SplitDash(Tail(s), <<>>)
       ELSE SplitDash(Tail(s), Append(piece, Head(s)))

DigitValue(ch) ==
  CHOOSE v \in 0..9 : <<"0", "1", "2", "3", "4", "5", "6", "7", "8", "9">>[v + 1] = ch

\* Number(s) of a string of decimal digits; Number("") is 0
RECURSIVE NumberOf(_)
NumberOf(s) ==
  IF s = <<>> THEN 0
  ELSE 10 * NumberOf(SubSeq(s, 1, Len(s) - 1)) + DigitValue(s[Len(s)])

\* the first piece read twice: [x, x] in place of [x, y]
ParseKeyFirstTwice(key) ==
  LET parts == SplitDash(key, <<>>)
  IN <<NumberOf(parts[1]), NumberOf(parts[1])>>

\* const [x, y] = key.split('-').map(Number)
ParseKey(key) ==
  LET parts == SplitDash(key, <<>>)
  IN <<NumberOf(parts[1]), NumberOf(parts[2])>>

(* Map<string,string>: a sequence of entries in insertion order *)

MapKeys(m) == {m[i].key : i \in 1..Len(m)}

MapHas(m, k) == k \in MapKeys(m)

\* Map.prototype.get: undefined is NoColor
NoColor == ""
MapGet(m, k) ==
  IF MapHas(m, k) THEN (CHOOSE e \in Range(m) : e.key = k).color ELSE NoColor

\* Map.prototype.set: an existing key keeps its place, a new key goes last
MapSet(m, k, c) ==
  IF MapHas(m, k)
  THEN [i \in 1..Len(m) |-> IF m[i].key = k THEN [key |-> k, color |-> c] ELSE m[i]]
  ELSE Append(m, [key |-> k, color |-> c])

\* Map.prototype.delete
RECURSIVE MapDelete(_, _)
MapDelete(m, k) ==
  IF m = <<>> THEN <<>>
  ELSE IF Head(m).key = k THEN MapDelete(Tail(m), k)
       ELSE <<Head(m)>> \o MapDelete(Tail(m), k)

EmptyMap == <<>>

\* The mapping a Map denotes, whatever its insertion order.
AsMapping(m) == [k \in MapKeys(m) |-> MapGet(m, k)]

----------------------------------------------------------------------------
(* The component *)

Square(n) == [width |-> n, height |-> n]

\* addToRecentColors without its filter: the colour is prepended again
addToRecentColorsNoFilter(prev, color) == Slice0(<<color>> \o prev, MaxRecent)

\* The updater of addToRecentColors, applied to the hook state prev.
addToRecentColors(prev, color) ==
  LET filtered == FilterOut(prev, color)
      newRecent == <<color>> \o filtered
  IN Slice0(newRecent, MaxRecent)

\* What a render closes over.
Current ==
  [gridSize |-> gridSize, selectedColor |-> selectedColor, pixels |-> pixels,
   isDrawing |-> isDrawing, recentColors |-> recentColors]

Flush == rendered' = Current'

Deferred == UNCHANGED rendered

\* renderGrid: the cells that exist in the rendered grid
InGrid(cell, size) ==
  /\ 0 <= cell[1] /\ cell[1] < size.width
  /\ 0 <= cell[2] /\ cell[2] < size.height

RenderedCells == {c \in Cells : InGrid(c, rendered.gridSize)}

NoGesture == [cell |-> NoCell, alt |-> FALSE]

\* The record of an input event: its kind, its cell, whether the alternate
\* modifier was held, the colour it selected or painted with (NoColor if none)
\* and the press that began its pointer gesture.
Event(kind, cell, alt, color, start) ==
  [kind |-> kind, cell |-> cell, alt |-> alt, color |-> color, start |-> start]

\* The colour an event painted with, if it painted.
Used(painted) == IF painted THEN rendered.selectedColor ELSE NoColor

\* The press that began the pointer gesture the last event belongs to.
Gesture == IF ev.kind \in {"mousedown", "mouseenter"} THEN ev.start ELSE NoGesture

\* What link.click() is given: the file name, the blob's type and content,
\* with the outcome of the host's raster surface and whether the export
\* followed a clear directly.  No export: no name.
Download(name, type, content, host) ==
  [name |-> name, type |-> type, content |-> content, host |-> host,
   afterClear |-> (ev.kind = "clear")]

NoDownload ==
  [name |-> "", type |-> "", content |-> <<>>, host |-> "", afterClear |-> FALSE]

\* An event that exports nothing.
NoExport == download' = NoDownload

Tick ==
  IF cap = <<>> THEN UNCHANGED cap
  ELSE cap[1] > 0 /\ cap' = <<cap[1] - 1>>

InitState(w) ==
  /\ gridSize = Square(SmallSide)
  /\ selectedColor = Seed
  /\ pixels = EmptyMap
  /\ isDrawing = FALSE
  /\ isMobile = FALSE
  /\ recentColors = <<Seed>>
  /\ rendered = Current
  /\ mounted = FALSE
  /\ innerWidth = w
  /\ ev = Event("init", NoCell, FALSE, NoColor, NoGesture)
  /\ download = NoDownload

Init == (\E w \in Widths : InitState(w)) /\ cap = <<>>

\* the breakpoint taken as part of the small preset: window.innerWidth <= 768
checkMobileInclusive(w) ==
  /\ isMobile' = (w <= Breakpoint)
  /\ gridSize' = IF w <= Breakpoint THEN Square(SmallSide) ELSE Square(LargeSide)

checkMobile(w) ==
  /\ isMobile' = (w < Breakpoint)
  /\ gridSize' = IF w < Breakpoint THEN Square(SmallSide) ELSE Square(LargeSide)

\* useEffect(..., []): checkMobile() once after the first render
Mount ==
  /\ ~mounted /\ Tick /\ NoExport
  /\ mounted' = TRUE
  /\ checkMobile(innerWidth)
  /\ ev' = Event("mount", NoCell, FALSE, NoColor, NoGesture)
  /\ UNCHANGED <<selectedColor, pixels, isDrawing, recentColors, innerWidth>>
  /\ Deferred

\* window 'resize' listener
Resize(w) ==
  /\ mounted /\ Tick /\ NoExport
  /\ w # innerWidth
  /\ innerWidth' = w
  /\ checkMobile(w)
  /\ ev' = Event("resize", NoCell, FALSE, NoColor, NoGesture)
  /\ UNCHANGED <<selectedColor, pixels, isDrawing, recentColors, mounted>>
  /\ Deferred

\* The component function runs again: new closures over the hook state.
Render ==
  /\ rendered # Current
  /\ rendered' = Current
  /\ UNCHANGED <<gridSize, selectedColor, pixels, isDrawing, isMobile,
                 recentColors, mounted, innerWidth, ev, download, cap>>

\* a picker that selects the colour and does not record it
handleColorChangeNoUse(color) ==
  /\ mounted /\ Tick /\ NoExport
  /\ selectedColor' = color
  /\ ev' = Event("picker", NoCell, FALSE, color, NoGesture)
  /\ UNCHANGED <<gridSize, pixels, isDrawing, isMobile, recentColors, mounted,
                 innerWidth>>
  /\ Flush

\* <input type="color" onChange>: a discrete event
handleColorChange(color) ==
  /\ mounted /\ Tick /\ NoExport
  /\ selectedColor' = color
  /\ recentColors' = addToRecentColors(recentColors, color)
  /\ ev' = Event("picker", NoCell, FALSE, color, NoGesture)
  /\ UNCHANGED <<gridSize, pixels, isDrawing, isMobile, mounted, innerWidth>>
  /\ Flush

\* a recent-colour button's onClick: setSelectedColor(color) and nothing else
SwatchClick(color) ==
  /\ mounted /\ Tick /\ NoExport
  /\ color \in Range(rendered.recentColors)
  /\ selectedColor' = color
  /\ ev' = Event("swatch", NoCell, FALSE, color, NoGesture)
  /\ UNCHANGED <<gridSize, pixels, isDrawing, isMobile, recentColors, mounted,
                 innerWidth>>
  /\ Flush

\* The body shared by handlePixelClick (erase: event.shiftKey) and
\* handleTouchClick (erase: event.touches.length > 1).
ActivateCell(cell, erase) ==
  LET pixelKey == KeyOf(cell)
      newPixels == IF erase THEN MapDelete(rendered.pixels, pixelKey)
                   ELSE MapSet(rendered.pixels, pixelKey, rendered.selectedColor)
  IN /\ pixels' = newPixels
     /\ recentColors' = IF erase THEN recentColors
                        ELSE addToRecentColors(recentColors, rendered.selectedColor)

\* a cell's onClick.  The browser dispatches click to a cell after the button
\* was pressed and released on that cell (a release on another cell gives the
\* cell no click).
handlePixelClick(cell, shiftKey) ==
  /\ mounted /\ Tick /\ NoExport
  /\ cell \in RenderedCells
  /\ ev.kind = "mouseup" /\ ev.start.cell = cell /\ ev.cell = cell
  /\ ActivateCell(cell, shiftKey)
  /\ ev' = Event("click", cell, shiftKey, Used(~shiftKey), NoGesture)
  /\ UNCHANGED <<gridSize, selectedColor, isDrawing, isMobile, mounted, innerWidth>>
  /\ Flush

\* a cell's onTouchStart: handleMouseDown(); handleTouchClick(x, y, e)
TouchStart(cell, touches) ==
  /\ mounted /\ Tick /\ NoExport
  /\ cell \in RenderedCells
  /\ isDrawing' = TRUE
  /\ ActivateCell(cell, touches > 1)
  /\ ev' = Event("touchstart", cell, touches > 1, Used(touches <= 1), NoGesture)
  /\ UNCHANGED <<gridSize, selectedColor, isMobile, mounted, innerWidth>>
  /\ Flush

\* a cell's onMouseDown
handleMouseDown(cell, shiftKey) ==
  /\ mounted /\ Tick /\ NoExport
  /\ cell \in RenderedCells
  /\ isDrawing' = TRUE
  /\ ev' = Event("mousedown", cell, shiftKey, NoColor,
                 [cell |-> cell, alt |-> shiftKey])
  /\ UNCHANGED <<gridSize, selectedColor, pixels, isMobile, recentColors, mounted,
                 innerWidth>>
  /\ Flush

\* the grid container's onMouseUp (the release bubbles up from the cell under
\* the pointer)
handleMouseUp ==
  /\ mounted /\ Tick /\ NoExport
  /\ isDrawing' = FALSE
  /\ ev' = Event("mouseup", IF Gesture = NoGesture THEN NoCell ELSE ev.cell, FALSE,
                 NoColor, Gesture)
  /\ UNCHANGED <<gridSize, selectedColor, pixels, isMobile, recentColors, mounted,
                 innerWidth>>
  /\ Flush

\* the grid container's onMouseLeave={handleMouseUp}: a continuous event
MouseLeave ==
  /\ mounted /\ Tick /\ NoExport
  /\ isDrawing' = FALSE
  /\ ev' = Event("mouseleave", NoCell, FALSE, NoColor, NoGesture)
  /\ UNCHANGED <<gridSize, selectedColor, pixels, isMobile, recentColors, mounted,
                 innerWidth>>
  /\ Deferred

\* a cell's onTouchEnd={handleMouseUp}
TouchEnd(cell) ==
  /\ mounted /\ Tick /\ NoExport
  /\ cell \in RenderedCells
  /\ isDrawing' = FALSE
  /\ ev' = Event("touchend", cell, FALSE, NoColor, NoGesture)
  /\ UNCHANGED <<gridSize, selectedColor, pixels, isMobile, recentColors, mounted,
                 innerWidth>>
  /\ Flush

\* The body shared by handlePixelMouseEnter and handleTouchMove.
EnterCell(cell) ==
  IF rendered.isDrawing
  THEN LET pixelKey == KeyOf(cell)
           newPixels == MapSet(rendered.pixels, pixelKey, rendered.selectedColor)
       IN /\ pixels' = newPixels
          /\ recentColors' = addToRecentColors(recentColors, rendered.selectedColor)
  ELSE UNCHANGED <<pixels, recentColors>>

\* a cell's onMouseEnter: a continuous event; the handler is not given the
\* event, so the shift key plays no part
handlePixelMouseEnter(cell, shiftKey) ==
  /\ mounted /\ Tick /\ NoExport
  /\ cell \in RenderedCells
  /\ EnterCell(cell)
  /\ ev' = Event("mouseenter", cell, shiftKey, Used(rendered.isDrawing), Gesture)
  /\ UNCHANGED <<gridSize, selectedColor, isDrawing, isMobile, mounted, innerWidth>>
  /\ Deferred

\* a cell's onTouchMove: a continuous event; e.touches is not read
handleTouchMove(cell, touches) ==
  /\ mounted /\ Tick /\ NoExport
  /\ cell \in RenderedCells
  /\ EnterCell(cell)
  /\ ev' = Event("touchmove", cell, touches > 1, Used(rendered.isDrawing), NoGesture)
  /\ UNCHANGED <<gridSize, selectedColor, isDrawing, isMobile, mounted, innerWidth>>
  /\ Deferred

\* a clear that keeps what the rendered grid shows
clearCanvasKeepsRendered ==
  /\ mounted /\ Tick /\ NoExport
  /\ pixels' = rendered.pixels
  /\ ev' = Event("clear", NoCell, FALSE, NoColor, NoGesture)
  /\ UNCHANGED <<gridSize, selectedColor, isDrawing, isMobile, recentColors, mounted,
                 innerWidth>>
  /\ Flush

\* the Clear button's onClick
clearCanvas ==
  /\ mounted /\ Tick /\ NoExport
  /\ pixels' = EmptyMap
  /\ ev' = Event("clear", NoCell, FALSE, NoColor, NoGesture)
  /\ UNCHANGED <<gridSize, selectedColor, isDrawing, isMobile, recentColors, mounted,
                 innerWidth>>
  /\ Flush

\* <rect x="${x * 10}" y="${y * 10}" width="10" height="10" fill="${color}"/>
\* for each entry, in the Map's iteration order
RECURSIVE SvgRects(_)
SvgRects(m) ==
  IF m = <<>> THEN <<>>
  ELSE LET xy == ParseKey(Head(m).key)
       IN <<[x |-> xy[1] * CellSize, y |-> xy[2] * CellSize, width |-> CellSize,
             height |-> CellSize, fill |-> Head(m).color]>> \o SvgRects(Tail(m))

\* svgContent: the root element with its size, and the rect elements
SvgDocument(m, size) ==
  [width |-> size.width * CellSize, height |-> size.height * CellSize,
   rects |-> SvgRects(m)]

\* the SVG button's onClick: no setter is called
downloadAsSVG ==
  /\ mounted /\ Tick
  /\ download' = Download("pixel-art.svg", "image/svg+xml",
                          SvgDocument(rendered.pixels, rendered.gridSize), "")
  /\ ev' = Event("svg", NoCell, FALSE, NoColor, NoGesture)
  /\ UNCHANGED <<gridSize, selectedColor, pixels, isDrawing, isMobile, recentColors,
                 mounted, innerWidth>>
  /\ Deferred

\* ctx.fillRect(x, y, w, h) with ctx.fillStyle = color on a surface of the
\* given size: the part of the rectangle outside the surface is not drawn.
\* Every rectangle is a square of the CellSize lattice, so the surface is a
\* mapping from the corners of the filled squares to their colours.
FillRect(fills, x, y, color, width, height) ==
  IF x + CellSize <= width /\ y + CellSize <= height
  THEN [c \in DOMAIN fills \cup {<<x, y>>} |-> IF c = <<x, y>> THEN color ELSE fills[c]]
  ELSE fills

\* pixels.forEach on the cleared surface
RECURSIVE FillAll(_, _, _, _)
FillAll(m, fills, width, height) ==
  IF m = <<>> THEN fills
  ELSE LET xy == ParseKey(Head(m).key)
       IN FillAll(Tail(m),
                  FillRect(fills, xy[1] * CellSize, xy[2] * CellSize, Head(m).color,
                           width, height),
                  width, height)

\* the canvas after canvas.width, canvas.height, clearRect and the fills
RasterSurface(m, size) ==
  LET width == size.width * CellSize
      height == size.height * CellSize
  IN [width |-> width, height |-> height,
      fills |-> FillAll(m, <<>>, width, height)]

\* What the host's raster surface does: it works, or canvasRef.current is
\* null, or getContext('2d') is null, or toBlob gives null.
HostOutcomes == {"ok", "noCanvas", "noContext", "noBlob"}

\* a raster export that goes on to deliver the link when toBlob gave no blob
downloadAsPNGNoBlobCheck(host) ==
  /\ mounted /\ Tick
  /\ download' = IF host \in {"ok", "noBlob"}
                 THEN Download("pixel-art.png", "image/png",
                               RasterSurface(rendered.pixels, rendered.gridSize), host)
                 ELSE [NoDownload EXCEPT !.host = host]
  /\ ev' = Event("png", NoCell, FALSE, NoColor, NoGesture)
  /\ UNCHANGED <<gridSize, selectedColor, pixels, isDrawing, isMobile, recentColors,
                 mounted, innerWidth>>
  /\ Deferred

\* the PNG button's onClick, with the toBlob callback: no setter is called
downloadAsPNG(host) ==
  /\ mounted /\ Tick
  /\ download' = IF host = "ok"
                 THEN Download("pixel-art.png", "image/png",
                               RasterSurface(rendered.pixels, rendered.gridSize), host)
                 ELSE [NoDownload EXCEPT !.host = host]
  /\ ev' = Event("png", NoCell, FALSE, NoColor, NoGesture)
  /\ UNCHANGED <<gridSize, selectedColor, pixels, isDrawing, isMobile, recentColors,
                 mounted, innerWidth>>
  /\ Deferred

Next ==
  \/ Mount
  \/ \E w \in Widths : Resize(w)
  \/ Render
  \/ \E c \in Colors : handleColorChange(c)
  \/ \E c \in Range(rendered.recentColors) : SwatchClick(c)
  \/ \E cell \in Cells, shiftKey \in BOOLEAN : handlePixelClick(cell, shiftKey)
  \/ \E cell \in Cells, touches \in 1..2 : TouchStart(cell, touches)
  \/ \E cell \in Cells, shiftKey \in BOOLEAN : handleMouseDown(cell, shiftKey)
  \/ handleMouseUp
  \/ MouseLeave
  \/ \E cell \in Cells : TouchEnd(cell)
  \/ \E cell \in Cells, shiftKey \in BOOLEAN : handlePixelMouseEnter(cell, shiftKey)
  \/ \E cell \in Cells, touches \in 1..2 : handleTouchMove(cell, touches)
  \/ clearCanvas
  \/ downloadAsSVG
  \/ \E host \in HostOutcomes : downloadAsPNG(host)

Spec == Init /\ [][Next]_vars

----------------------------------------------------------------------------
(* The component followed through at most MaxEvents events, from its        *)
(* construction or from a state in which its colour history is in use: every *)
(* history the picker builds by choosing one new colour after another, up to *)
(* a full one, in a window as wide as the breakpoint.                        *)

Canon == Fillers \o <<Seed>>

InUse(j) ==
  /\ gridSize = Square(LargeSide)
  /\ isMobile = FALSE
  /\ recentColors = SubSeq(Canon, j, Len(Canon))
  /\ selectedColor = Canon[j]
  /\ pixels = EmptyMap
  /\ isDrawing = FALSE
  /\ rendered = Current
  /\ mounted = TRUE
  /\ innerWidth = Breakpoint
  /\ ev = IF j = Len(Canon) THEN Event("mount", NoCell, FALSE, NoColor, NoGesture)
          ELSE Event("picker", NoCell, FALSE, Canon[j], NoGesture)
  /\ download = NoDownload

InitHist ==
  /\ \/ InitState(Breakpoint)
     \/ \E j \in 1..Len(Canon) : InUse(j)
  /\ cap = <<MaxEvents>>

SpecHist == InitHist /\ [][Next]_vars

----------------------------------------------------------------------------
(* Properties *)

\* C1: in every reachable state the recent-colour history has at most
\* MaxRecent (10) entries, and its entries are pairwise distinct.
HistoryBoundedDistinct ==
  /\ Len(recentColors) <= MaxRecent
  /\ Distinct(recentColors)

\* A full history, after a cell was painted with a colour that was further
\* down the list: it moved to the front, nothing was duplicated or added.
HistoryFullAfterRepaint ==
  /\ ev.kind = "touchstart" /\ ~ev.alt
  /\ Len(recentColors) = MaxRecent
  /\ ev.color = Fillers[5]
  /\ recentColors[1] = Fillers[5]

\* r is c followed by the entries of h other than c, in their order in h, cut
\* to MaxRecent entries; of the entries of h only the last can be missing.
IsUse(h, c, r) ==
  LET others == {i \in 1..Len(h) : h[i] # c}
      rank(i) == Cardinality({j \in others : j < i})
  IN /\ Len(r) = Min(MaxRecent, 1 + Cardinality(others))
     /\ r[1] = c
     /\ \A i \in others : rank(i) + 2 <= MaxRecent => r[rank(i) + 2] = h[i]
     /\ \A x \in Range(h) \ Range(r) : x = h[Len(h)]

\* Selecting a, a again, then b on the history h: the history then reads b, a,
\* and is exactly <<b, a>> when h held no other colour.
SelectAAB(h) ==
  \A a, b \in Colors :
    a # b =>
      LET r == addToRecentColors(addToRecentColors(addToRecentColors(h, a), a), b)
      IN /\ SubSeq(r, 1, 2) = <<b, a>>
         /\ r = <<b, a>> \o SubSeq(FilterOut(FilterOut(h, a), b), 1,
                                   Min(MaxRecent - 2, Len(FilterOut(FilterOut(h, a), b))))
         /\ (Range(h) \subseteq {a, b} => r = <<b, a>>)

UsedColorLeads == ev.color # NoColor => recentColors[1] = ev.color

\* C4: a geometry change discards every painted entry: right after any step
\* that changes the grid geometry the pixel map is empty.
GeometryChangeEmptiesPixels == [][gridSize' # gridSize => pixels' = EmptyMap]_vars

\* C5: every key of the pixel map denotes a coordinate within the current
\* geometry, also after the geometry shrinks from 32x32 to 16x16.
KeysWithinGeometry == \A k \in MapKeys(pixels) : InGrid(ParseKey(k), gridSize)

\* C6: a gesture start at a cell also paints (or, with the alternate modifier,
\* erases) that cell: after a pointer press on cell A, a drag into cell B and
\* the release on B, A holds the selected colour, or is absent when the
\* modifier was held at the press.
PressActsOnStartCell ==
  (/\ ev.kind = "mouseup"
   /\ ev.start # NoGesture
   /\ ev.cell # ev.start.cell)
  => IF ev.start.alt THEN ~MapHas(pixels, KeyOf(ev.start.cell))
     ELSE MapGet(pixels, KeyOf(ev.start.cell)) = selectedColor

\* A move-into-cell event at the cell.
MoveInto(cell) ==
  \/ \E shiftKey \in BOOLEAN : handlePixelMouseEnter(cell, shiftKey)
  \/ \E touches \in 1..2 : handleTouchMove(cell, touches)

\* C7: a move-into-cell event while the session is PAINTING sets the entered
\* cell to the selected colour and puts that colour at the head of the
\* history, whatever modifier is held, and no move event removes an entry
\* from the pixel map.
MoveAlwaysPaints ==
  [][\A cell \in Cells :
       MoveInto(cell) =>
         /\ isDrawing =>
              /\ MapGet(pixels', KeyOf(cell)) = selectedColor
              /\ recentColors'[1] = selectedColor
         /\ MapKeys(pixels) \subseteq MapKeys(pixels')]_vars

\* An activate-cell event with the alternate modifier at the cell.
EraseAt(cell) == handlePixelClick(cell, TRUE) \/ TouchStart(cell, 2)

\* An event that paints the cell: an activate-cell event without the
\* modifier, or a move-into-cell event while PAINTING.
PaintAt(cell) ==
  \/ handlePixelClick(cell, FALSE)
  \/ TouchStart(cell, 1)
  \/ (isDrawing /\ MoveInto(cell))

\* C8: an activate-cell event with the alternate modifier removes the cell's
\* entry, leaves every other entry as it was, and leaves the colour history
\* and the selected colour unchanged.
EraseFrame ==
  [][\A cell \in Cells :
       EraseAt(cell) =>
         /\ ~MapHas(pixels', KeyOf(cell))
         /\ MapKeys(pixels') = MapKeys(pixels) \ {KeyOf(cell)}
         /\ \A k \in MapKeys(pixels') : MapGet(pixels', k) = MapGet(pixels, k)
         /\ recentColors' = recentColors
         /\ selectedColor' = selectedColor]_vars

\* set and delete on a mapping keyed by coordinate
SetM(f, k, c) == [x \in DOMAIN f \cup {k} |-> IF x = k THEN c ELSE f[x]]
DeleteM(f, k) == [x \in DOMAIN f \ {k} |-> f[x]]

\* C9: the pixel map is the left-to-right reduction of the paint and erase
\* events over an initially empty mapping: each paint is set(cell, selected
\* colour) and each erase is delete(cell) on the mapping the events before it
\* produced (the reduction, one event at a time).
ReductionStep ==
  [][\A cell \in Cells :
       /\ PaintAt(cell) =>
            AsMapping(pixels') = SetM(AsMapping(pixels), KeyOf(cell), selectedColor)
       /\ EraseAt(cell) =>
            AsMapping(pixels') = DeleteM(AsMapping(pixels), KeyOf(cell))]_vars

\* C10: no grid mutation is lost: when a cell handler runs while the map of the
\* handler before it has not been rendered yet, the resulting map still holds
\* every entry of that map for the other cells.
NoLostUpdate ==
  [][\A cell \in Cells :
       ((PaintAt(cell) \/ EraseAt(cell)) /\ pixels # rendered.pixels) =>
         \A k \in MapKeys(pixels) \ {KeyOf(cell)} :
           MapHas(pixels', k) /\ MapGet(pixels', k) = MapGet(pixels, k)]_vars

\* The Map after the cell of key k is erased and painted again with the colour
\* it had: the same mapping, reached by two more events.
Repainted(m, k) == MapSet(MapDelete(m, k), k, MapGet(m, k))

\* C11: the vector export is a function of the pixel-map content alone: the
\* document exported is also the document of the same mapping after any of
\* its cells was erased and painted again (the same cells and colours, painted
\* in another order).
SvgOrderIndependent ==
  [][(ev'.kind = "svg" /\ downloadAsSVG) =>
       \A k \in MapKeys(rendered.pixels) :
         SvgDocument(Repainted(rendered.pixels, k), rendered.gridSize)
           = download'.content]_vars

\* The rect elements of the document at the place of the cell.
RectsAt(doc, cell) ==
  {i \in 1..Len(doc.rects) :
     doc.rects[i].x = cell[1] * CellSize /\ doc.rects[i].y = cell[2] * CellSize}

\* C12: the vector export of the pixel map and geometry (W, H) it is taken of
\* declares the size (W*10, H*10) and holds exactly one rect for each painted
\* cell (x, y), at (x*10, y*10), 10 wide and high, filled with the stored
\* colour, and no rect for an unpainted cell.
SvgContract ==
  [][(ev'.kind = "svg" /\ downloadAsSVG) =>
       LET doc == download'.content
           m == rendered.pixels
       IN /\ download'.name = "pixel-art.svg"
          /\ doc.width = rendered.gridSize.width * 10
          /\ doc.height = rendered.gridSize.height * 10
          /\ Len(doc.rects) = Cardinality(MapKeys(m))
          /\ \A cell \in Cells :
               IF MapHas(m, KeyOf(cell))
               THEN /\ Cardinality(RectsAt(doc, cell)) = 1
                    /\ \A i \in RectsAt(doc, cell) :
                         /\ doc.rects[i].width = 10 /\ doc.rects[i].height = 10
                         /\ doc.rects[i].fill = MapGet(m, KeyOf(cell))
               ELSE RectsAt(doc, cell) = {}]_vars

\* The scenario of the claim: after (0,0) and another cell were painted and
\* (0,0) erased, the document holds the one rect of the other cell, (1,2).
SvgOneRectLeft ==
  /\ ev.kind = "svg"
  /\ ~MapHas(rendered.pixels, KeyOf(<<0, 0>>))
  /\ recentColors = <<"#ff0000", Seed>>
  /\ download.content.rects =
       <<[x |-> 10, y |-> 20, width |-> 10, height |-> 10, fill |-> "#ff0000"]>>

\* The cell's square [x*10, (x+1)*10) x [y*10, (y+1)*10) is filled on the
\* surface (with the colour FilledWith gives).
Filled(surface, cell) ==
  <<cell[1] * CellSize, cell[2] * CellSize>> \in DOMAIN surface.fills
FilledWith(surface, cell) ==
  surface.fills[<<cell[1] * CellSize, cell[2] * CellSize>>]

\* C13: the raster and the vector export of one state have the same canvas
\* size and cover the same cells with the same colours: the square of every
\* painted cell is filled with its colour in both, and the square of an
\* unpainted cell in neither.
ExportsAgree ==
  [][(ev'.kind = "png" /\ downloadAsPNG("ok")) =>
       LET surface == download'.content
           doc == SvgDocument(rendered.pixels, rendered.gridSize)
       IN /\ surface.width = doc.width /\ surface.height = doc.height
          /\ \A cell \in Cells :
               IF MapHas(rendered.pixels, KeyOf(cell))
               THEN /\ Filled(surface, cell)
                    /\ FilledWith(surface, cell) = MapGet(rendered.pixels, KeyOf(cell))
                    /\ \E i \in RectsAt(doc, cell) :
                         doc.rects[i].fill = MapGet(rendered.pixels, KeyOf(cell))
               ELSE ~Filled(surface, cell) /\ RectsAt(doc, cell) = {}]_vars

\* C14: the clear command removes every entry of the pixel map, whatever it
\* held, and leaves the geometry (W, H) as it was; an export taken right after
\* a clear has the size (W*10, H*10) and no filled region.
ClearContract ==
  [][/\ (ev'.kind = "clear" /\ clearCanvas) =>
          pixels' = EmptyMap /\ gridSize' = gridSize
     /\ (ev.kind = "clear" /\ ev'.kind \in {"svg", "png"} /\ download'.name # "") =>
          /\ download'.afterClear
          /\ download'.content.width = gridSize.width * 10
          /\ download'.content.height = gridSize.height * 10
          /\ download'.name = "pixel-art.svg" => download'.content.rects = <<>>
          /\ download'.name = "pixel-art.png" => download'.content.fills = <<>>]_vars

\* A raster export delivered right after a clear that followed a press (the
\* drawing flag is still set) with a second colour in use.
ExportedAfterClear ==
  /\ download.afterClear /\ download.name = "pixel-art.png"
  /\ download.content = [width |-> 320, height |-> 320, fills |-> <<>>]
  /\ pixels = EmptyMap /\ isDrawing /\ Len(recentColors) = 2

\* C15: in every reachable state the selected colour is one of the colours of
\* the recent-colour history: no sequence of picks and paints drops it.
SelectedInHistory == selectedColor \in Range(recentColors)

\* The swatch of the oldest entry of a full history was clicked: the selected
\* colour is the entry that the next new colour would drop.
SelectedIsOldest ==
  /\ ev.kind = "swatch"
  /\ Len(recentColors) = MaxRecent
  /\ selectedColor = recentColors[MaxRecent]

\* C16: the drawing flag is false initially, becomes true only on a gesture
\* start (press or touch contact), and is false after every gesture end
\* (release, pointer leaving the canvas, touch end); so a move-into-cell event
\* that is not between a gesture start and its gesture end, which finds the
\* flag false, paints no cell.
FlagFollowsGesture ==
  /\ ~isDrawing
  /\ [][/\ (~isDrawing /\ isDrawing') => ev'.kind \in {"mousedown", "touchstart"}
        /\ ev'.kind \in {"mouseup", "mouseleave", "touchend"} => ~isDrawing'
        /\ \A cell \in Cells : (MoveInto(cell) /\ ~isDrawing) => pixels' = pixels]_vars

\* C18: a move-into-cell event received while the session is IDLE (the
\* drawing flag is false) changes neither the pixel map nor the colour
\* history.
IdleMoveChangesNothing ==
  [][\A cell \in Cells :
       (ev'.kind \in {"mouseenter", "touchmove"} /\ ~isDrawing /\ MoveInto(cell)) =>
         UNCHANGED <<pixels, recentColors>>]_vars

\* An export command, raster (whatever the host's surface does) or vector.
Export ==
  \/ downloadAsSVG
  \/ \E host \in HostOutcomes : downloadAsPNG(host)

\* C17: an export changes neither the pixel map, the history, the selected
\* colour, the drawing flag nor the geometry and delivers its file; a raster
\* export whose surface fails (no canvas, no 2-D context or no encoded blob)
\* delivers no file and changes no state either.
ExportReadsOnly ==
  [][(ev'.kind \in {"svg", "png"} /\ Export) =>
       /\ UNCHANGED <<pixels, recentColors, selectedColor, isDrawing, gridSize, isMobile>>
       /\ rendered' = rendered
       /\ IF ev'.kind = "png" /\ download'.host # "ok"
          THEN download'.name = "" /\ download'.content = <<>>
          ELSE download'.name \in {"pixel-art.png", "pixel-art.svg"}]_vars

\* A raster export of a painted grid for which toBlob gave no blob.
ExportFailedOnPaintedGrid ==
  /\ ev.kind = "png" /\ download.host = "noBlob"
  /\ pixels # EmptyMap /\ rendered.pixels = pixels

\* C19: once mounted, the geometry is the 16x16 preset when the viewport is
\* narrower than 768 and the 32x32 preset otherwise, and a step that changes
\* the geometry leaves the selected colour, the colour history and the
\* drawing flag as they were.
GeometryIsPreset ==
  [][/\ mounted' =>
          gridSize' = IF innerWidth' < 768
                      THEN [width |-> 16, height |-> 16]
                      ELSE [width |-> 32, height |-> 32]
     /\ gridSize' # gridSize =>
          UNCHANGED <<selectedColor, recentColors, isDrawing>>]_vars

\* The window was resized across the breakpoint during a press, with a second
\* colour in use: the geometry is the small preset and the grid on screen
\* still has the large one.
ResizedWhileDrawing ==
  /\ ev.kind = "resize" /\ innerWidth = Breakpoint - 1
  /\ gridSize = Square(SmallSide) /\ rendered.gridSize = Square(LargeSide)
  /\ isDrawing /\ selectedColor # Seed /\ Len(recentColors) = 2

====
